---- MODULE Spec2Model ----
(***************************************************************************)
(* Model of the hierarchical todo manager (src/src/lib/todo_manager.py)    *)
(* over the SQLAlchemy mapping of src/src/lib/database.py.                 *)
(*                                                                         *)
(* The table "todos" is a function from the stored uuids to their rows.    *)
(* A manager call is one action: it runs its queries, its session changes  *)
(* and its commit (flush) to completion.                                   *)
(***************************************************************************)
EXTENDS Integers, Sequences, FiniteSets, TLC

\* Size of the identifier space uuid4() draws from in the model.
MaxTodos == 4

\* Python's None: an absent parent_uuid, an absent return value.
None == 0

\* The identifiers (uuid.UUID objects; every one of them is truthy).
UUIDs == 1..MaxTodos

\* Size of the identifier space in the specifications that vary the texts
\* or run remove_todo statement by statement.
MaxFew == 3

\* The (title, description) pairs a caller passes.
Texts == {<<"a", "">>, <<"b", "d">>}

\* The delete_mode strings a caller can pass: the three documented ones and
\* one that is none of them (the HTTP handler passes any string through).
DeleteModes == {"safe", "cascade", "orphan", "other"}

VARIABLES
    todos,      \* the committed table: uuid -> row
    issued,     \* every uuid that uuid4() has returned so far
    pre,        \* the table as it was when the last manager call started
    last,       \* the last manager call: its arguments and what it returned
    call,       \* the remove_todo call in progress and its session, or idle
    session,    \* the manager's session: its transaction and pending changes
    manager2,   \* a second TodoManager and what its own session has loaded
    listing     \* the listing handler in progress, or idle

vars == <<todos, issued, pre, last, call, session, manager2, listing>>

----------------------------------------------------------------------------
(* database.py *)

\* A row of the table: the columns other than the key and the timestamps.
TodoModel(title, description, parent_uuid) ==
    [title |-> title, description |-> description, parent_uuid |-> parent_uuid]

EmptyStore == [u \in {} |-> TodoModel("", "", None)]

\* relationship "children": remote_side=[uuid] puts the REMOTE column on the
\* primary key, so the relationship is many-to-one: it leads from a row to
\* the one row whose uuid equals this row's parent_uuid (or to nothing).
children(db, u) ==
    IF db[u].parent_uuid # None /\ db[u].parent_uuid \in DOMAIN db
    THEN {db[u].parent_uuid}
    ELSE {}

\* backref "parent": the reverse, one-to-many side of the same foreign key:
\* the rows whose parent_uuid equals this row's uuid. It has the default
\* cascade (no delete cascade).
parent(db, u) == {c \in DOMAIN db : db[c].parent_uuid = u}

\* Session.delete on a set of rows: cascade="all, delete-orphan" on
\* "children" propagates the deletion along that relationship, so every row
\* reached through it is marked deleted too, transitively.
RECURSIVE session_delete(_, _)
session_delete(db, marked) ==
    LET reached == marked \cup UNION {children(db, u) : u \in marked}
    IN  IF reached = marked THEN marked ELSE session_delete(db, reached)

\* Variant: the flush leaves the foreign keys of the remaining rows alone.
commit_keeps_foreign_keys(db, dirty, deleted) ==
    [u \in (DOMAIN db) \ deleted |->
        IF u \in DOMAIN dirty THEN dirty[u] ELSE db[u]]

\* Session.commit: the flush writes the pending column changes, deletes the
\* marked rows, and for each deleted row clears the foreign key of the
\* members of its "parent" collection that are not deleted themselves
\* (one-to-many without delete cascade).
commit(db, dirty, deleted) ==
    [u \in (DOMAIN db) \ deleted |->
        IF \E d \in deleted : u \in parent(db, d)
        THEN [db[u] EXCEPT !.parent_uuid = None]
        ELSE IF u \in DOMAIN dirty THEN dirty[u] ELSE db[u]]

----------------------------------------------------------------------------
(* todo_manager.py: queries *)

\* A set of uuids as a list. The queries have no ORDER BY; the model lists
\* rows by ascending uuid.
RECURSIVE all(_)
all(S) ==
    IF S = {} THEN <<>>
    ELSE LET m == CHOOSE x \in S : \A y \in S : x <= y
         IN  <<m>> \o all(S \ {m})

\* query(TodoModel).filter_by(uuid=...).first(): the uuid found, or None.
first(db, todo_uuid) == IF todo_uuid \in DOMAIN db THEN todo_uuid ELSE None

\* Variant: the filter keeps every row that has a parent.
get_children_unfiltered(db, parent_uuid) ==
    all({c \in DOMAIN db : db[c].parent_uuid # None})

get_children(db, parent_uuid) ==
    all({c \in DOMAIN db : db[c].parent_uuid = parent_uuid})

\* Variant: the recursion is left out.
get_children_not_recursive(db, parent_uuid) == get_children(db, parent_uuid)

RECURSIVE extend(_, _, _)
RECURSIVE get_children_recursive(_, _)
\* for child_uuid in children: all_descendants.extend(recursive(child_uuid))
extend(db, kids, i) ==
    IF i > Len(kids) THEN <<>>
    ELSE get_children_recursive(db, kids[i]) \o extend(db, kids, i + 1)

get_children_recursive(db, parent_uuid) ==
    LET kids == get_children(db, parent_uuid)
    IN  kids \o extend(db, kids, 1)

\* get_all_todos: the root-level rows.
get_all_todos(db) == all({u \in DOMAIN db : db[u].parent_uuid = None})

\* The Todo a call returns: the fields of the row.
_model_to_pydantic(db, u) ==
    [uuid |-> u, title |-> db[u].title, description |-> db[u].description,
     parent_uuid |-> db[u].parent_uuid]

\* A call that returns no Todo (it returned None, or it raised), written in
\* the shape of a Todo so that it compares with one.
NoTodo == [uuid |-> None, title |-> "", description |-> "", parent_uuid |-> None]

\* try_get_todo_by_uuid without children: the row's Todo, or None.
try_get_todo_by_uuid(db, todo_uuid) ==
    IF first(db, todo_uuid) = None THEN NoTodo
    ELSE _model_to_pydantic(db, todo_uuid)

Range(s) == {s[i] : i \in 1..Len(s)}

\* lib/models.py: a Todo together with the list of its children's uuids.
TodoWithChildren(todo, kids) ==
    [uuid |-> todo.uuid, title |-> todo.title,
     description |-> todo.description, parent_uuid |-> todo.parent_uuid,
     children |-> kids]

\* Whether the attribute TodoModel.children is a collection: a many-to-one
\* relationship is a scalar attribute (the related row, or None).
children_uselist == FALSE

\* try_get_todo_by_uuid(todo_uuid, with_children=True):
\* "[child.uuid for child in todo_model.children]" iterates the attribute;
\* a scalar (a TodoModel or None) is not iterable.
try_get_todo_with_children(db, todo_uuid) ==
    IF first(db, todo_uuid) = None
    THEN [raised |-> "", result |-> NoTodo]
    ELSE IF ~children_uselist
         THEN [raised |-> "TypeError", result |-> NoTodo]
         ELSE [raised |-> "",
               result |-> TodoWithChildren(_model_to_pydantic(db, todo_uuid),
                                           all(children(db, todo_uuid)))]

----------------------------------------------------------------------------
(* main.py: list_all_todos *)

\* Variant: every root is returned with a children list.
list_all_todos_always_with_children(db) ==
    [i \in 1..Len(get_all_todos(db)) |->
        LET u == get_all_todos(db)[i]
        IN  TodoWithChildren(_model_to_pydantic(db, u), get_children(db, u))]

\* For each root-level todo: a TodoWithChildren when get_children finds
\* children, the plain Todo otherwise.
list_all_todos(db) ==
    LET roots == SelectSeq(get_all_todos(db),
                           LAMBDA u : db[u].parent_uuid = None)
    IN  [i \in 1..Len(roots) |->
            LET kids == get_children(db, roots[i])
            IN  IF Len(kids) > 0
                THEN TodoWithChildren(_model_to_pydantic(db, roots[i]), kids)
                ELSE _model_to_pydantic(db, roots[i])]

----------------------------------------------------------------------------
(* todo_manager.py: add_todo *)

\* Variant: the parent is not looked up.
parent_not_validated(db, parent_uuid) == TRUE

\* "if parent_uuid: parent = query...first(); if not parent: raise":
\* TRUE when the validation lets the call through.
parent_exists(db, parent_uuid) ==
    parent_uuid = None \/ first(db, parent_uuid) # None

\* Variant: the insert also writes the description to the parent's row.
insert_writes_parent(db, new_uuid, title, description, parent_uuid) ==
    [u \in (DOMAIN db) \cup {new_uuid} |->
        IF u = new_uuid THEN TodoModel(title, description, parent_uuid)
        ELSE IF u = parent_uuid THEN [db[u] EXCEPT !.description = description]
        ELSE db[u]]

\* self.db.add(todo_model); self.db.commit(): one INSERT.
insert(db, new_uuid, title, description, parent_uuid) ==
    [u \in (DOMAIN db) \cup {new_uuid} |->
        IF u = new_uuid THEN TodoModel(title, description, parent_uuid)
        ELSE db[u]]

add_todo(db, title, description, parent_uuid, new_uuid) ==
    IF ~parent_exists(db, parent_uuid)
    THEN [db |-> db, raised |-> "ValueError", result |-> NoTodo]
    ELSE LET db2 == insert(db, new_uuid, title, description, parent_uuid)
         IN  [db |-> db2, raised |-> "",
              result |-> _model_to_pydantic(db2, new_uuid)]

----------------------------------------------------------------------------
(* todo_manager.py: remove_todo *)

\* Variant: a missing todo is reported as deleted.
not_found_as_deleted == [deleted |-> TRUE, error |-> "not found"]

not_found_result == [deleted |-> FALSE, error |-> "not found"]

\* Variant: a single child does not block.
blocked_by_several_children(kids, delete_mode) ==
    Len(kids) > 1 /\ delete_mode = "safe"

\* "if children and delete_mode == 'safe'"
blocked_by_children(kids, delete_mode) ==
    Len(kids) > 0 /\ delete_mode = "safe"

blocked_result(kids) ==
    [deleted |-> FALSE, error |-> "has children", children_count |-> Len(kids)]

\* Variant: the cascade branch lists the direct children only.
direct_children_to_delete(db, todo_uuid, delete_mode) ==
    IF delete_mode = "cascade" THEN get_children(db, todo_uuid) ELSE <<>>

\* The descendants the cascade branch looks up and deletes, as listed.
descendants_to_delete(db, todo_uuid, delete_mode) ==
    IF delete_mode = "cascade"
    THEN SelectSeq(get_children_recursive(db, todo_uuid),
                   LAMBDA d : first(db, d) # None)
    ELSE <<>>

\* deleted_count = 1, plus one per descendant the cascade loop deleted.
deleted_count(db, todo_uuid, delete_mode) ==
    1 + Len(descendants_to_delete(db, todo_uuid, delete_mode))

\* The orphan branch: child_model.parent_uuid = None on each direct child.
orphan_updates(db, todo_uuid, delete_mode) ==
    IF delete_mode = "orphan"
    THEN [c \in {x \in DOMAIN db : db[x].parent_uuid = todo_uuid} |->
            [db[c] EXCEPT !.parent_uuid = None]]
    ELSE [c \in {} |-> TodoModel("", "", None)]

\* Variant: the count of children whatever the mode.
orphaned_count_any_mode(kids, delete_mode) == Len(kids)

\* "orphaned_count": len(children) if delete_mode == "orphan" else 0
orphaned_count(kids, delete_mode) ==
    IF delete_mode = "orphan" THEN Len(kids) ELSE 0

remove_todo(db, todo_uuid, delete_mode) ==
    IF first(db, todo_uuid) = None
    THEN [db |-> db, result |-> not_found_result]
    ELSE LET kids == get_children(db, todo_uuid)
         IN  IF blocked_by_children(kids, delete_mode)
             THEN [db |-> db, result |-> blocked_result(kids)]
             ELSE LET asked == {todo_uuid} \cup
                         Range(descendants_to_delete(db, todo_uuid, delete_mode))
                      deleted == session_delete(db, asked)
                      dirty == orphan_updates(db, todo_uuid, delete_mode)
                  IN  [db |-> commit(db, dirty, deleted),
                       result |->
                         [deleted |-> TRUE,
                          deleted_count |->
                              deleted_count(db, todo_uuid, delete_mode),
                          mode |-> delete_mode,
                          orphaned_count |->
                              orphaned_count(kids, delete_mode)]]

----------------------------------------------------------------------------
(* The session of a remove_todo call that runs statement by statement *)

\* No call in progress.
Idle == [pc |-> "idle"]

NoChanges == [c \in {} |-> TodoModel("", "", None)]

\* Variant: every statement that changes the session is committed at once
\* (a session with autocommit).
commits_at_every_step(step) == TRUE

\* Whether the session's changes reach the table at this statement:
\* sessionmaker(autocommit=False, autoflush=False), and remove_todo calls
\* commit once, after self.db.delete(todo_model).
commits_at(step) == step = "commit"

\* The table after a statement of the call, given the session after it.
table_after(step, db, c) ==
    IF commits_at(step) THEN commit(db, c.dirty, c.marked \cap DOMAIN db)
    ELSE db

\* The session after a statement of the call.
session_after(step, c) ==
    IF commits_at(step) THEN [c EXCEPT !.marked = {}, !.dirty = NoChanges]
    ELSE c

----------------------------------------------------------------------------
(* The manager's session across calls *)

\* self.db = db_session or get_session(): a session with a transaction open
\* and nothing pending.
ActiveSession ==
    [transaction |-> "active", new |-> NoChanges, dirty |-> NoChanges,
     marked |-> {}]

----------------------------------------------------------------------------
(* A second manager *)

\* Before "manager2 = TodoManager()".
NoManager == [created |-> FALSE]

----------------------------------------------------------------------------
(* The state machine *)

Init ==
    /\ todos = EmptyStore
    /\ issued = {}
    /\ pre = EmptyStore
    /\ last = [op |-> "init", todo_uuid |-> None, delete_mode |-> "",
               parent_uuid |-> None, raised |-> "", result |-> NoTodo]
    /\ call = Idle
    /\ session = ActiveSession
    /\ manager2 = NoManager
    /\ listing = Idle

\* Variant: uuid4() may return any identifier again.
uuid4_any(seen) == UUIDs

\* new_uuid = uuid4(): the identifiers the call can return. A version-4 UUID
\* has 122 random bits; the model takes it to differ from every identifier
\* returned before.
uuid4(seen) == UUIDs \ seen

\* manager.add_todo(title, description, parent_uuid); uuid4() returns an
\* identifier it has not returned before.
\* The call raises before uuid4() is reached when the validation fails; the
\* model stops issuing identifiers when the identifier space is used up.
\* The call with its texts drawn from texts and its identifiers from ids.
AddTodoWith(ids, texts) ==
    \E parent_uuid \in ids \cup {None} :
      \E text \in texts :
        \E new_uuid \in IF parent_exists(todos, parent_uuid)
                        THEN uuid4(issued) \cap ids ELSE {None} :
          LET r == add_todo(todos, text[1], text[2], parent_uuid, new_uuid)
          IN  /\ todos' = r.db
              /\ issued' = IF r.raised = "" THEN issued \cup {new_uuid}
                                            ELSE issued
              /\ pre' = todos
              /\ last' = [op |-> "add_todo", todo_uuid |-> None,
                          delete_mode |-> "", parent_uuid |-> parent_uuid,
                          title |-> text[1], description |-> text[2],
                          raised |-> r.raised, result |-> r.result]
              /\ UNCHANGED <<call, session, manager2, listing>>

\* add_todo with one text, over the whole identifier space.
AddTodo == AddTodoWith(UUIDs, {<<"a", "">>})

\* add_todo with every text, over a smaller identifier space.
AddTodoTitled == AddTodoWith(1..MaxFew, Texts)

\* manager.remove_todo(todo_uuid, delete_mode)
RemoveTodo ==
    \E todo_uuid \in UUIDs :
      \E delete_mode \in DeleteModes :
        LET r == remove_todo(todos, todo_uuid, delete_mode)
        IN  /\ todos' = r.db
            /\ pre' = todos
            /\ last' = [op |-> "remove_todo", todo_uuid |-> todo_uuid,
                        delete_mode |-> delete_mode, parent_uuid |-> None,
                        raised |-> "", result |-> r.result]
            /\ UNCHANGED <<issued, call, session, manager2, listing>>

\* GET /todo: list_all_todos()
ListAllTodos ==
    /\ last' = [op |-> "list_all_todos", raised |-> "",
                result |-> list_all_todos(todos)]
    /\ pre' = todos
    /\ UNCHANGED <<todos, issued, call, session, manager2, listing>>

\* manager.try_get_todo_by_uuid(todo_uuid, with_children)
GetTodo ==
    \E todo_uuid \in UUIDs :
      \E with_children \in BOOLEAN :
        LET r == IF with_children
                 THEN try_get_todo_with_children(todos, todo_uuid)
                 ELSE [raised |-> "",
                       result |-> try_get_todo_by_uuid(todos, todo_uuid)]
        IN  /\ last' = [op |-> "try_get_todo_by_uuid",
                        todo_uuid |-> todo_uuid,
                        with_children |-> with_children,
                        raised |-> r.raised, result |-> r.result]
            /\ pre' = todos
            /\ UNCHANGED <<todos, issued, call, session, manager2, listing>>

Next == AddTodo \/ RemoveTodo \/ ListAllTodos \/ GetTodo

Spec == Init /\ [][Next]_vars

----------------------------------------------------------------------------
(* remove_todo statement by statement, with the process able to stop *)

\* add_todo, between two calls of remove_todo.
AddTodoFew == call.pc = "idle" /\ AddTodoWith(1..MaxFew, {<<"a", "">>})

\* Lines 117-130: the lookup, get_children, the safe check; the call either
\* returns or goes on to its branch.
BeginRemove ==
    /\ call.pc = "idle"
    /\ \E todo_uuid \in 1..MaxFew :
         \E delete_mode \in DeleteModes :
           LET kids == get_children(todos, todo_uuid)
               returns == \/ first(todos, todo_uuid) = None
                          \/ blocked_by_children(kids, delete_mode)
           IN  /\ pre' = todos
               /\ UNCHANGED <<todos, issued, session, manager2, listing>>
               /\ IF returns
                  THEN /\ last' = [op |-> "remove_todo",
                                   todo_uuid |-> todo_uuid,
                                   delete_mode |-> delete_mode,
                                   parent_uuid |-> None, raised |-> "",
                                   result |-> remove_todo(todos, todo_uuid,
                                                          delete_mode).result]
                       /\ UNCHANGED call
                  ELSE /\ call' =
                            [pc |-> "branch", todo_uuid |-> todo_uuid,
                             delete_mode |-> delete_mode, kids |-> kids,
                             queue |->
                               IF delete_mode = "cascade"
                               THEN get_children_recursive(todos, todo_uuid)
                               ELSE IF delete_mode = "orphan" THEN kids
                               ELSE <<>>,
                             marked |-> {}, dirty |-> NoChanges,
                             deleted_count |-> 1]
                       /\ UNCHANGED last

\* Lines 135-139: one turn of the cascade loop.
DeleteDescendant ==
    /\ call.pc = "branch"
    /\ call.delete_mode = "cascade"
    /\ call.queue # <<>>
    /\ LET d == Head(call.queue)
           found == first(todos, d) # None
           c == [call EXCEPT
                   !.queue = Tail(call.queue),
                   !.marked = IF found
                              THEN session_delete(todos, call.marked \cup {d})
                              ELSE call.marked,
                   !.deleted_count = IF found THEN @ + 1 ELSE @]
       IN  /\ todos' = table_after("delete_descendant", todos, c)
           /\ call' = session_after("delete_descendant", c)
    /\ UNCHANGED <<issued, pre, last, session, manager2, listing>>

\* Lines 144-145: one turn of the orphan loop.
OrphanChild ==
    /\ call.pc = "branch"
    /\ call.delete_mode = "orphan"
    /\ call.queue # <<>>
    /\ LET k == Head(call.queue)
           c == [call EXCEPT
                   !.queue = Tail(call.queue),
                   !.dirty = [u \in DOMAIN call.dirty \cup {k} |->
                                IF u = k
                                THEN [todos[k] EXCEPT !.parent_uuid = None]
                                ELSE call.dirty[u]]]
       IN  /\ todos' = table_after("orphan_child", todos, c)
           /\ call' = session_after("orphan_child", c)
    /\ UNCHANGED <<issued, pre, last, session, manager2, listing>>

\* Line 148: self.db.delete(todo_model), once the branch is done.
DeleteTarget ==
    /\ call.pc = "branch"
    /\ call.queue = <<>>
    /\ LET c == [call EXCEPT
                   !.pc = "commit",
                   !.marked = session_delete(todos,
                                 (call.marked \cup {call.todo_uuid})
                                     \cap DOMAIN todos)]
       IN  /\ todos' = table_after("delete_target", todos, c)
           /\ call' = session_after("delete_target", c)
    /\ UNCHANGED <<issued, pre, last, session, manager2, listing>>

\* Lines 149-156: self.db.commit() and the result.
CommitRemove ==
    /\ call.pc = "commit"
    /\ todos' = commit(todos, call.dirty, call.marked \cap DOMAIN todos)
    /\ last' = [op |-> "remove_todo", todo_uuid |-> call.todo_uuid,
                delete_mode |-> call.delete_mode, parent_uuid |-> None,
                raised |-> "",
                result |-> [deleted |-> TRUE,
                            deleted_count |-> call.deleted_count,
                            mode |-> call.delete_mode,
                            orphaned_count |->
                                orphaned_count(call.kids, call.delete_mode)]]
    /\ call' = Idle
    /\ UNCHANGED <<issued, pre, session, manager2, listing>>

\* The process stops before the commit: the session and what it holds are
\* gone, the table is what was committed.
Crash ==
    /\ call.pc # "idle"
    /\ last' = [op |-> "remove_todo", todo_uuid |-> call.todo_uuid,
                delete_mode |-> call.delete_mode, parent_uuid |-> None,
                raised |-> "crash", result |-> NoTodo]
    /\ call' = Idle
    /\ UNCHANGED <<todos, issued, pre, session, manager2, listing>>

NextSteps ==
    \/ AddTodoFew
    \/ BeginRemove
    \/ DeleteDescendant
    \/ OrphanChild
    \/ DeleteTarget
    \/ CommitRemove
    \/ Crash

SpecSteps == Init /\ [][NextSteps]_vars

\* The calls that change the store, with the texts varied.
NextTitled == AddTodoTitled \/ RemoveTodo

SpecTitled == Init /\ [][NextTitled]_vars

----------------------------------------------------------------------------
(* Vocabulary of the properties *)

Stored(db) == DOMAIN db

DirectChildren(db, u) == {c \in DOMAIN db : db[c].parent_uuid = u}

RECURSIVE Descendants(_, _)
Descendants(db, u) ==
    LET kids == DirectChildren(db, u)
    IN  kids \cup UNION {Descendants(db, k) : k \in kids}

\* The last call was remove_todo in this mode on a todo that existed.
RemovedExisting(mode) ==
    /\ last.op = "remove_todo"
    /\ last.delete_mode = mode
    /\ last.todo_uuid \in Stored(pre)

\* u is stored now with the parent_uuid it had before the last call.
Untouched(u) == u \in Stored(todos) /\ todos[u] = pre[u]

TypeOK ==
    /\ DOMAIN todos \subseteq issued
    /\ issued \subseteq UUIDs
    /\ \A u \in DOMAIN todos : todos[u].parent_uuid \in UUIDs \cup {None}

----------------------------------------------------------------------------
(* Properties of remove_todo and add_todo *)

\* C1: remove_todo(id, 'safe') on an existing todo with N > 0 direct
\* children returns deleted = false with children_count = N and leaves the
\* store unchanged.
C1_SafeBlockedByChildren ==
    (RemovedExisting("safe") /\ DirectChildren(pre, last.todo_uuid) # {}) =>
        /\ last.result.deleted = FALSE
        /\ "children_count" \in DOMAIN last.result
        /\ last.result.children_count =
               Cardinality(DirectChildren(pre, last.todo_uuid))
        /\ todos = pre

C1_Witness ==
    /\ RemovedExisting("safe")
    /\ Cardinality(DirectChildren(pre, last.todo_uuid)) = 1
    /\ last.result.deleted = FALSE
    /\ \E c \in DirectChildren(pre, last.todo_uuid) : Untouched(c)

\* C2: after remove_todo(id, 'cascade') on an existing todo, the target and
\* every transitive descendant it had are gone: try_get_todo_by_uuid returns
\* None for each of them.
C2_CascadeRemovesSubtree ==
    RemovedExisting("cascade") =>
        \A u \in {last.todo_uuid} \cup Descendants(pre, last.todo_uuid) :
            try_get_todo_by_uuid(todos, u) = NoTodo

C2_Witness ==
    /\ RemovedExisting("cascade")
    /\ last.result.deleted
    /\ \E c \in DirectChildren(pre, last.todo_uuid) :
          \E g \in DirectChildren(pre, c) : g \notin Stored(todos)

\* C3: after remove_todo(id, 'orphan') on an existing todo only the target
\* is removed; each former direct child is stored with parent_uuid absent
\* and is listed by get_all_todos; deeper descendants keep their parent_uuid.
C3_OrphanRemovesOnlyTarget ==
    RemovedExisting("orphan") =>
        /\ Stored(todos) = Stored(pre) \ {last.todo_uuid}
        /\ \A c \in DirectChildren(pre, last.todo_uuid) :
              /\ c \in Stored(todos)
              /\ todos[c].parent_uuid = None
              /\ c \in Range(get_all_todos(todos))
        /\ \A g \in Descendants(pre, last.todo_uuid)
                      \ DirectChildren(pre, last.todo_uuid) : Untouched(g)

\* C4: add_todo with a parent_uuid that identifies no stored todo raises
\* ValueError and creates no record.
C4_AddWithMissingParentFails ==
    (/\ last.op = "add_todo"
     /\ last.parent_uuid # None
     /\ last.parent_uuid \notin Stored(pre)) =>
        /\ last.raised = "ValueError"
        /\ todos = pre

C4_Witness ==
    /\ last.op = "add_todo"
    /\ last.parent_uuid # None
    /\ last.parent_uuid \notin Stored(pre)
    /\ last.parent_uuid \in issued
    /\ last.raised = "ValueError"
    /\ Stored(pre) # {}

\* C5: in every state reached by completed add_todo and remove_todo calls,
\* every stored todo with a parent_uuid references a stored todo.
C5_ReferentialIntegrity ==
    \A u \in Stored(todos) :
        todos[u].parent_uuid # None => todos[u].parent_uuid \in Stored(todos)

C5_Witness ==
    /\ last.op = "remove_todo"
    /\ last.todo_uuid \in Stored(pre)
    /\ last.result.deleted
    /\ \E c \in DirectChildren(pre, last.todo_uuid) : c \in Stored(todos)
    /\ \E u \in Stored(todos) : todos[u].parent_uuid # None

\* C6: remove_todo(id, 'cascade') removes nothing outside the target's
\* subtree: every other todo is still stored with its parent_uuid, and
\* get_children of the target's parent is its former children minus the
\* target.
C6_CascadeFrame ==
    RemovedExisting("cascade") =>
        /\ \A u \in Stored(pre) \ ({last.todo_uuid}
                                   \cup Descendants(pre, last.todo_uuid)) :
              Untouched(u)
        /\ LET p == pre[last.todo_uuid].parent_uuid
           IN  p # None =>
                 Range(get_children(todos, p)) =
                     Range(get_children(pre, p)) \ {last.todo_uuid}

\* C7: remove_todo(id, 'safe') on an existing todo without direct children
\* deletes the target only: deleted = true, deleted_count = 1, the target is
\* gone and every other todo is still stored with its parent_uuid.
C7_SafeLeafFrame ==
    (RemovedExisting("safe") /\ DirectChildren(pre, last.todo_uuid) = {}) =>
        /\ last.result.deleted = TRUE
        /\ last.result.deleted_count = 1
        /\ last.todo_uuid \notin Stored(todos)
        /\ \A u \in Stored(pre) \ {last.todo_uuid} : Untouched(u)

\* C8: a successful remove_todo(id, 'cascade') reports deleted_count = 1 +
\* the number of transitive descendants of the target, and that number is
\* the decrease in the number of stored todos.
C8_CascadeCount ==
    (RemovedExisting("cascade") /\ last.result.deleted) =>
        /\ last.result.deleted_count =
               1 + Cardinality(Descendants(pre, last.todo_uuid))
        /\ last.result.deleted_count =
               Cardinality(Stored(pre)) - Cardinality(Stored(todos))

\* C9: a successful remove_todo(id, 'orphan') reports deleted_count = 1 and
\* orphaned_count = the number of direct children of the target, each of
\* which is now at root level; a successful safe or cascade deletion reports
\* orphaned_count = 0.
C9_OrphanCounts ==
    /\ (RemovedExisting("orphan") /\ last.result.deleted) =>
          /\ last.result.deleted_count = 1
          /\ last.result.orphaned_count =
                 Cardinality(DirectChildren(pre, last.todo_uuid))
          /\ \A c \in DirectChildren(pre, last.todo_uuid) :
                c \in Stored(todos) /\ todos[c].parent_uuid = None
    /\ \A m \in {"safe", "cascade"} :
          (RemovedExisting(m) /\ last.result.deleted) =>
              last.result.orphaned_count = 0

C9_Witness ==
    /\ RemovedExisting("orphan")
    /\ last.result.deleted
    /\ last.result.orphaned_count = 2
    /\ Cardinality(DirectChildren(pre, last.todo_uuid)) = 2

\* A not-found result of remove_todo that changed nothing.
NotFoundNoMutation ==
    /\ last.raised = ""
    /\ last.result.deleted = FALSE
    /\ "error" \in DOMAIN last.result
    /\ last.result.error = "not found"
    /\ DOMAIN last.result = {"deleted", "error"}
    /\ todos = pre

\* The identifiers that were created and are no longer stored.
Deleted(db) == issued \ Stored(db)

\* C10: remove_todo on an identifier that is not stored (never created, or
\* already deleted) returns the not-found failure in every mode and mutates
\* nothing; an identifier that was deleted stays deleted, so the second and
\* every later remove_todo on it is not-found.
C10_RemoveMissingIsNotFound ==
    /\ []((last.op = "remove_todo" /\ last.todo_uuid \notin Stored(pre))
             => NotFoundNoMutation)
    /\ [][Deleted(todos) \subseteq (issued' \ Stored(todos'))]_vars

C10_Witness ==
    /\ last.op = "remove_todo"
    /\ last.todo_uuid \in issued
    /\ last.todo_uuid \notin Stored(pre)
    /\ last.delete_mode = "cascade"
    /\ NotFoundNoMutation
    /\ Stored(todos) # {}

\* C11: every successful add_todo returns an identifier that differs from
\* every identifier assigned before, deleted ones included; a deleted
\* identifier is never resurrected: once try_get_todo_by_uuid returns None
\* for it, it returns None in every later state.
C11_FreshIdentifiers ==
    /\ [][(last'.op = "add_todo" /\ last'.raised = "")
            => last'.result.uuid \notin issued]_vars
    /\ [][\A u \in Deleted(todos) :
            try_get_todo_by_uuid(todos', u) = NoTodo]_vars

C11_Witness ==
    /\ last.op = "add_todo"
    /\ last.raised = ""
    /\ (issued \ {last.result.uuid}) \ Stored(pre) # {}
    /\ last.result.uuid \in Stored(todos) \ Stored(pre)
    /\ \A u \in (issued \ {last.result.uuid}) \ Stored(pre) :
          try_get_todo_by_uuid(todos, u) = NoTodo

\* The parent chain of u, followed for at most n steps.
RECURSIVE Ancestors(_, _, _)
Ancestors(db, u, n) ==
    IF n = 0 \/ u \notin DOMAIN db \/ db[u].parent_uuid = None THEN {}
    ELSE {db[u].parent_uuid} \cup Ancestors(db, db[u].parent_uuid, n - 1)

\* The stored todos that have t on their parent chain.
Below(db, t) == {d \in Stored(db) : t \in Ancestors(db, d, Cardinality(Stored(db)))}

NoDuplicates(s) == Cardinality(Range(s)) = Len(s)

\* C12: for every stored todo T, get_children_recursive(T.uuid) returns
\* exactly the transitive descendants of T, none twice, and the empty list
\* when T is a leaf.
C12_DescendantsExact ==
    \A t \in Stored(todos) :
        LET r == get_children_recursive(todos, t)
        IN  /\ Range(r) = Below(todos, t)
            /\ NoDuplicates(r)
            /\ (DirectChildren(todos, t) = {} => r = <<>>)

C12_Witness ==
    \E t \in Stored(todos) :
        /\ Len(get_children_recursive(todos, t)) = 3
        /\ \E c \in DirectChildren(todos, t) : DirectChildren(todos, c) # {}
        /\ \E l \in Stored(todos) : get_children_recursive(todos, l) = <<>>

\* C13: for every stored todo T, get_children(T.uuid) returns exactly the
\* identifiers of the todos whose parent_uuid is T.uuid: no deeper
\* descendant, no todo of another subtree, no deleted todo.
C13_ChildrenExact ==
    \A t \in Stored(todos) :
        LET r == get_children(todos, t)
        IN  /\ \A u \in UUIDs :
                  u \in Range(r) <=>
                      (u \in Stored(todos) /\ todos[u].parent_uuid = t)
            /\ NoDuplicates(r)

C13_Witness ==
    /\ last.op = "remove_todo"
    /\ last.result.deleted
    /\ \E t \in Stored(todos) :
          /\ Len(get_children(todos, t)) = 1
          /\ \E c \in Range(get_children(todos, t)) :
                DirectChildren(todos, c) # {}
    /\ Stored(pre) \ Stored(todos) # {}

\* C16: in every state reached by add_todo and remove_todo calls, following
\* parent_uuid from a stored todo reaches a root within as many steps as
\* there are stored todos, and no todo is its own ancestor.
C16_Acyclic ==
    \A u \in Stored(todos) :
        LET n == Cardinality(Stored(todos))
        IN  /\ u \notin Ancestors(todos, u, n)
            /\ \E r \in Ancestors(todos, u, n) \cup {u} :
                  r \in Stored(todos) /\ todos[r].parent_uuid = None

C16_Witness ==
    /\ last.op = "remove_todo"
    /\ last.result.deleted
    /\ \E u \in Stored(todos) : Cardinality(Ancestors(todos, u, MaxTodos)) = 2

\* C18: every result of remove_todo, on success, on not found and on
\* blocked by children, has the fields deleted, deleted_count,
\* orphaned_count and mode, and has error only on failure.
C18_ResultShape ==
    last.op = "remove_todo" =>
        /\ {"deleted", "deleted_count", "orphaned_count", "mode"}
               \subseteq DOMAIN last.result
        /\ ("error" \in DOMAIN last.result) <=> ~last.result.deleted

\* C20: remove_todo with a delete_mode other than safe, cascade and orphan
\* never deletes a todo that has direct children and never leaves a stored
\* todo whose parent_uuid references a deleted todo.
C20_UnknownModeRejected ==
    (/\ last.op = "remove_todo"
     /\ last.delete_mode \notin {"safe", "cascade", "orphan"}) =>
        /\ \A u \in Stored(pre) :
              DirectChildren(pre, u) # {} => u \in Stored(todos)
        /\ \A u \in Stored(todos) :
              todos[u].parent_uuid # None =>
                  todos[u].parent_uuid \in Stored(todos)

Roots(db) == {u \in Stored(db) : db[u].parent_uuid = None}

\* C14: the root listing returns exactly the stored todos without
\* parent_uuid, each once; an entry has a children list exactly when the
\* root has a direct child, and the list is exactly its direct children.
C14_RootListing ==
    last.op = "list_all_todos" =>
        LET r == last.result
        IN  /\ {r[i].uuid : i \in 1..Len(r)} = Roots(todos)
            /\ Len(r) = Cardinality(Roots(todos))
            /\ \A i \in 1..Len(r) :
                  /\ r[i].parent_uuid = None
                  /\ ("children" \in DOMAIN r[i]) <=>
                         (DirectChildren(todos, r[i].uuid) # {})
                  /\ "children" \in DOMAIN r[i] =>
                         /\ Range(r[i].children) =
                                DirectChildren(todos, r[i].uuid)
                         /\ NoDuplicates(r[i].children)

C14_Witness ==
    /\ last.op = "list_all_todos"
    /\ Len(last.result) = 2
    /\ \E i \in 1..2 : /\ "children" \in DOMAIN last.result[i]
                       /\ Len(last.result[i].children) = 2
    /\ \E i \in 1..2 : "children" \notin DOMAIN last.result[i]

\* C15: try_get_todo_by_uuid(id, with_children=True) on an existing todo
\* returns that todo with a children list equal to the identifiers of its
\* direct children (what get_children(id) returns) and never raises.
C15_GetWithChildren ==
    (/\ last.op = "try_get_todo_by_uuid"
     /\ last.with_children
     /\ last.todo_uuid \in Stored(pre)) =>
        /\ last.raised = ""
        /\ last.result.uuid = last.todo_uuid
        /\ "children" \in DOMAIN last.result
        /\ Range(last.result.children) = DirectChildren(todos, last.todo_uuid)
        /\ last.result.children = get_children(todos, last.todo_uuid)

\* C19: a successful add_todo is a single insert: the store afterwards is
\* the previous store plus exactly one new todo with the requested
\* parent_uuid, and every todo stored before is still stored with the same
\* title, description and parent_uuid.
C19_AddIsSingleInsert ==
    (last.op = "add_todo" /\ last.raised = "") =>
        LET new == last.result.uuid
        IN  /\ new \notin Stored(pre)
            /\ Stored(todos) = Stored(pre) \cup {new}
            /\ todos[new] = TodoModel(last.title, last.description,
                                      last.parent_uuid)
            /\ \A u \in Stored(pre) :
                  /\ todos[u].title = pre[u].title
                  /\ todos[u].description = pre[u].description
                  /\ todos[u].parent_uuid = pre[u].parent_uuid

C19_Witness ==
    /\ last.op = "add_todo"
    /\ last.raised = ""
    /\ last.parent_uuid \in Stored(pre)
    /\ last.title = "b"
    /\ pre[last.parent_uuid].title = "a"
    /\ todos[last.parent_uuid] = pre[last.parent_uuid]
    /\ Cardinality(Stored(todos)) = 3

\* The deletion of the target is complete in the table.
CompleteDeletion(todo_uuid, delete_mode) ==
    /\ todo_uuid \notin Stored(todos)
    /\ delete_mode = "cascade" =>
          Descendants(pre, todo_uuid) \cap Stored(todos) = {}
    /\ delete_mode = "orphan" =>
          \A c \in DirectChildren(pre, todo_uuid) :
              c \in Stored(todos) /\ todos[c].parent_uuid = None

\* A call that runs statement by statement returns what the call as a whole
\* returns, and leaves the table it leaves.
StepsAgree ==
    (call.pc = "idle" /\ last.op = "remove_todo" /\ last.raised = "") =>
        LET r == remove_todo(pre, last.todo_uuid, last.delete_mode)
        IN  todos = r.db /\ last.result = r.result

----------------------------------------------------------------------------
(* add_todo and remove_todo with a commit that can fail *)

\* How self.db.commit() can end: it returns, a statement of the flush
\* fails, or the COMMIT itself fails.
CommitOutcomes == {"ok", "flush", "commit"}

\* Rows written over a table.
Overwrite(db, rows) ==
    [u \in (DOMAIN db) \cup (DOMAIN rows) |->
        IF u \in DOMAIN rows THEN rows[u] ELSE db[u]]

\* Every manager method starts a query or a commit on self.db, and the
\* session refuses both unless its transaction is active.
usable(s) == s.transaction = "active"

\* self.db.add(todo_model): the row is pending in the session.
session_add(s, new_uuid, row) ==
    [s EXCEPT !.new = Overwrite(@, [u \in {new_uuid} |-> row])]

\* What remove_todo has put in the session when it reaches self.db.commit():
\* the rows marked by self.db.delete and the children it re-parented.
session_remove(s, db, todo_uuid, delete_mode) ==
    [s EXCEPT
       !.marked = @ \cup session_delete(db, {todo_uuid} \cup
                     Range(descendants_to_delete(db, todo_uuid, delete_mode))),
       !.dirty = Overwrite(@, orphan_updates(db, todo_uuid, delete_mode))]

\* A commit that returns: everything pending in the session is written.
session_commit(db, s) ==
    LET db2 == Overwrite(db, s.new)
    IN  commit(db2,
               [u \in (DOMAIN s.dirty) \cap (DOMAIN db2) |-> s.dirty[u]],
               s.marked \cap DOMAIN db2)

\* Variant: the failed commit leaves the session as it was, its changes
\* pending and its transaction active.
failed_commit_keeps_changes(s, outcome) == s

\* The session after self.db.commit() raised. The manager has no except and
\* never calls rollback. A failed flush rolls the transaction back, discards
\* what was pending and leaves the transaction inactive until a rollback; a
\* failed COMMIT leaves what was flushed uncommitted and the transaction
\* in its prepared state.
failed_commit(s, outcome) ==
    [ActiveSession EXCEPT
       !.transaction = IF outcome = "flush" THEN "deactive" ELSE "prepared"]

\* manager.add_todo on the shared session, the commit ending in any way.
AddTodoOrFail ==
    \E parent_uuid \in (1..MaxFew) \cup {None} :
      \E outcome \in CommitOutcomes :
        LET frame == /\ pre' = todos
                     /\ UNCHANGED <<call, manager2, listing>>
            returns(raised, result) ==
                last' = [op |-> "add_todo", todo_uuid |-> None,
                         delete_mode |-> "", parent_uuid |-> parent_uuid,
                         title |-> "a", description |-> "",
                         raised |-> raised, result |-> result]
        IN  IF parent_uuid # None /\ ~usable(session)
            THEN \* line 52: the parent query
                 /\ outcome = "ok"
                 /\ returns("PendingRollbackError", NoTodo)
                 /\ frame
                 /\ UNCHANGED <<todos, issued, session>>
            ELSE IF ~parent_exists(todos, parent_uuid)
            THEN /\ outcome = "ok"
                 /\ returns("ValueError", NoTodo)
                 /\ frame
                 /\ UNCHANGED <<todos, issued, session>>
            ELSE \E new_uuid \in uuid4(issued) \cap (1..MaxFew) :
                   LET s == session_add(session, new_uuid,
                                        TodoModel("a", "", parent_uuid))
                   IN  /\ issued' = issued \cup {new_uuid}
                       /\ frame
                       /\ IF ~usable(session)
                          THEN \* line 71: commit on the unusable session
                               /\ outcome = "ok"
                               /\ returns("PendingRollbackError", NoTodo)
                               /\ session' = s
                               /\ UNCHANGED todos
                          ELSE IF outcome = "ok"
                          THEN /\ todos' = session_commit(todos, s)
                               /\ session' = ActiveSession
                               /\ returns("", _model_to_pydantic(todos',
                                                                 new_uuid))
                          ELSE /\ returns("OperationalError", NoTodo)
                               /\ session' = failed_commit(s, outcome)
                               /\ UNCHANGED todos

\* manager.remove_todo on the shared session, the commit ending in any way.
RemoveTodoOrFail ==
    \E todo_uuid \in 1..MaxFew :
      \E delete_mode \in DeleteModes :
        \E outcome \in CommitOutcomes :
          LET r == remove_todo(todos, todo_uuid, delete_mode)
              returns(raised, result) ==
                  last' = [op |-> "remove_todo", todo_uuid |-> todo_uuid,
                           delete_mode |-> delete_mode, parent_uuid |-> None,
                           raised |-> raised, result |-> result]
          IN  /\ pre' = todos
              /\ UNCHANGED <<issued, call, manager2, listing>>
              /\ IF ~usable(session)
                 THEN \* line 117: the lookup
                      /\ outcome = "ok"
                      /\ returns("PendingRollbackError", NoTodo)
                      /\ UNCHANGED <<todos, session>>
                 ELSE IF ~r.result.deleted
                 THEN /\ outcome = "ok"
                      /\ returns("", r.result)
                      /\ UNCHANGED <<todos, session>>
                 ELSE LET s == session_remove(session, todos, todo_uuid,
                                              delete_mode)
                      IN  IF outcome = "ok"
                          THEN /\ todos' = session_commit(todos, s)
                               /\ session' = ActiveSession
                               /\ returns("", r.result)
                          ELSE /\ returns("OperationalError", NoTodo)
                               /\ session' = failed_commit(s, outcome)
                               /\ UNCHANGED todos

NextFail == AddTodoOrFail \/ RemoveTodoOrFail

SpecFail == Init /\ [][NextFail]_vars

\* C21: a commit that fails in add_todo or remove_todo leaves the committed
\* table as it was; a later call on the same session writes nothing but its
\* own change (no insert, delete or re-parenting left by the failed call);
\* and the failure is raised as an exception that is neither the
\* ValueError of the validation nor a returned not-found or blocked result.
C21_CommitFailureAborts ==
    /\ last.raised \in {"OperationalError", "PendingRollbackError"} =>
           /\ todos = pre
           /\ last.result = NoTodo
    /\ (last.op = "add_todo" /\ last.raised = "") =>
           todos = add_todo(pre, last.title, last.description,
                            last.parent_uuid, last.result.uuid).db
    /\ (last.op = "remove_todo" /\ last.raised = "") =>
           todos = remove_todo(pre, last.todo_uuid, last.delete_mode).db
    /\ ~usable(session) => last.raised # ""

\* A commit failed with rows stored, and a later add_todo on the same
\* session raised with its insert still pending.
C21_Witness ==
    /\ last.op = "add_todo"
    /\ last.raised = "PendingRollbackError"
    /\ ~usable(session)
    /\ DOMAIN session.new # {}
    /\ todos # EmptyStore
    /\ todos = pre

----------------------------------------------------------------------------
(* main.py: several requests against the one manager *)

\* The handler the server is inside of: "" between two requests.
running ==
    IF call.pc # "idle" THEN "remove_todo"
    ELSE IF listing.pc # "idle" THEN "list_all_todos"
    ELSE ""

\* Variant: the handlers are plain "def", each request runs on a thread of
\* the pool and a handler starts or goes on at any time.
may_run_on_a_thread(handler) == TRUE

\* Whether the server runs a statement of this handler now. Every handler
\* is "async def" and contains no await: the event loop runs the handler it
\* has called to its return before it calls the handler of another request.
may_run(handler) == running \in {"", handler}

\* POST /todo
HandleAddTodo ==
    may_run("add_todo") /\ AddTodoWith(1..MaxFew, {<<"a", "">>})

\* DELETE /todo/{todo_uuid}: manager.remove_todo, statement by statement.
HandleBeginRemove == may_run("remove_todo") /\ BeginRemove

HandleDeleteDescendant == may_run("remove_todo") /\ DeleteDescendant

HandleOrphanChild == may_run("remove_todo") /\ OrphanChild

HandleDeleteTarget == may_run("remove_todo") /\ DeleteTarget

HandleCommitRemove == may_run("remove_todo") /\ CommitRemove

\* GET /todo, line 164: all_todos = manager.get_all_todos(); result = []
ListBegin ==
    /\ may_run("list_all_todos")
    /\ listing.pc = "idle"
    /\ listing' = [pc |-> "loop",
                   all_todos |->
                       [i \in 1..Len(get_all_todos(todos)) |->
                           _model_to_pydantic(todos, get_all_todos(todos)[i])],
                   result |-> <<>>]
    /\ pre' = todos
    /\ UNCHANGED <<todos, issued, last, call, session, manager2>>

\* Lines 167-176: one turn of the loop, with its manager.get_children call.
ListRoot ==
    /\ may_run("list_all_todos")
    /\ listing.pc = "loop"
    /\ listing.all_todos # <<>>
    /\ LET todo == Head(listing.all_todos)
           kids == get_children(todos, todo.uuid)
       IN  listing' =
               [listing EXCEPT
                  !.all_todos = Tail(@),
                  !.result =
                      IF todo.parent_uuid # None THEN @
                      ELSE IF Len(kids) > 0
                      THEN Append(@, TodoWithChildren(todo, kids))
                      ELSE Append(@, todo)]
    /\ UNCHANGED <<todos, issued, pre, last, call, session, manager2>>

\* Line 178: return result
ListReturn ==
    /\ may_run("list_all_todos")
    /\ listing.pc = "loop"
    /\ listing.all_todos = <<>>
    /\ last' = [op |-> "list_all_todos", raised |-> "",
                result |-> listing.result]
    /\ listing' = Idle
    /\ UNCHANGED <<todos, issued, pre, call, session, manager2>>

NextLoop ==
    \/ HandleAddTodo
    \/ HandleBeginRemove
    \/ HandleDeleteDescendant
    \/ HandleOrphanChild
    \/ HandleDeleteTarget
    \/ HandleCommitRemove
    \/ ListBegin
    \/ ListRoot
    \/ ListReturn

SpecLoop == Init /\ [][NextLoop]_vars

\* C22: with several requests against the one manager, no handler runs
\* while another is between two of its statements: the listing handler
\* never runs while a remove_todo holds uncommitted changes in the session
\* (nor the reverse), the table does not change between the listing's
\* get_all_todos and its last get_children, and the listing returned is the
\* listing of one committed table.
C22_HandlersRunToCompletion ==
    /\ ~(call.pc # "idle" /\ listing.pc # "idle")
    /\ listing.pc # "idle" => todos = pre
    /\ last.op = "list_all_todos" => last.result = list_all_todos(pre)

\* The listing handler is between two get_children calls, the first root
\* listed with its child and the second root still to come.
C22_Witness ==
    /\ listing.pc = "loop"
    /\ Len(listing.result) = 1
    /\ "children" \in DOMAIN listing.result[1]
    /\ Len(listing.all_todos) = 1
    /\ call.pc = "idle"
    /\ Cardinality(Stored(todos)) = 3

----------------------------------------------------------------------------
(* test_comprehensive.py: a second TodoManager with its own session *)

\* Variant: the database is in memory and separate for every session, so a
\* new session starts on an empty one.
engine_in_memory(db) == EmptyStore

\* engine = create_engine(DATABASE_URL); sessionmaker(bind=engine): the table
\* the queries of a session read. Every session is bound to the one engine,
\* the file todos.db.
engine(db) == db

\* The rows a query of the session hands back for the uuids it selected: a
\* row the session has loaded before keeps the attributes it was loaded
\* with.
loaded(identity_map, db, ids) ==
    [u \in ids |-> IF u \in DOMAIN identity_map THEN identity_map[u]
                   ELSE db[u]]

\* The identifiers in the runs with two managers.
MaxTwo == 2

\* add_todo on the first manager.
FirstAddTodo == AddTodoWith(1..MaxTwo, {<<"a", "">>})

\* remove_todo on the first manager.
FirstRemoveTodo ==
    \E todo_uuid \in 1..MaxTwo :
      \E delete_mode \in DeleteModes :
        LET r == remove_todo(todos, todo_uuid, delete_mode)
        IN  /\ todos' = r.db
            /\ pre' = todos
            /\ last' = [op |-> "remove_todo", todo_uuid |-> todo_uuid,
                        delete_mode |-> delete_mode, parent_uuid |-> None,
                        raised |-> "", result |-> r.result]
            /\ UNCHANGED <<issued, call, session, manager2, listing>>

\* manager2 = TodoManager(): get_session() gives it a session of its own,
\* with nothing loaded. The field since keeps the table as committed then.
NewManager ==
    /\ manager2' = [created |-> TRUE, identity_map |-> NoChanges,
                    since |-> todos]
    /\ last' = [op |-> "TodoManager", raised |-> "", result |-> NoTodo]
    /\ pre' = todos
    /\ UNCHANGED <<todos, issued, call, session, listing>>

\* manager2.get_all_todos()
Manager2GetAllTodos ==
    /\ manager2.created
    /\ LET db == engine(todos)
           ids == get_all_todos(db)
           rows == loaded(manager2.identity_map, db, Range(ids))
       IN  /\ last' = [op |-> "manager2.get_all_todos", raised |-> "",
                       result |-> [i \in 1..Len(ids) |->
                                      _model_to_pydantic(rows, ids[i])]]
           /\ manager2' = [manager2 EXCEPT
                             !.identity_map = Overwrite(@, rows)]
    /\ pre' = todos
    /\ UNCHANGED <<todos, issued, call, session, listing>>

\* manager2.try_get_todo_by_uuid(todo_uuid)
Manager2GetTodo ==
    /\ manager2.created
    /\ \E todo_uuid \in 1..MaxTwo :
         LET db == engine(todos)
             ids == {first(db, todo_uuid)} \ {None}
             rows == loaded(manager2.identity_map, db, ids)
         IN  /\ last' = [op |-> "manager2.try_get_todo_by_uuid",
                         todo_uuid |-> todo_uuid, raised |-> "",
                         result |-> IF ids = {} THEN NoTodo
                                    ELSE _model_to_pydantic(rows, todo_uuid)]
             /\ manager2' = [manager2 EXCEPT
                               !.identity_map = Overwrite(@, rows)]
    /\ pre' = todos
    /\ UNCHANGED <<todos, issued, call, session, listing>>

NextTwo ==
    \/ FirstAddTodo
    \/ FirstRemoveTodo
    \/ NewManager
    \/ Manager2GetAllTodos
    \/ Manager2GetTodo

SpecTwo == Init /\ [][NextTwo]_vars

\* C23: a TodoManager created after the first manager's add_todo and
\* remove_todo calls returned (nothing committed since it was created)
\* returns from get_all_todos the root-level todos the first manager
\* returns, and from try_get_todo_by_uuid the first manager's result.
C23_CommittedDataVisible ==
    (manager2.created /\ manager2.since = todos) =>
        /\ last.op = "manager2.get_all_todos" =>
               last.result =
                   [i \in 1..Len(get_all_todos(todos)) |->
                       _model_to_pydantic(todos, get_all_todos(todos)[i])]
        /\ last.op = "manager2.try_get_todo_by_uuid" =>
               last.result = try_get_todo_by_uuid(todos, last.todo_uuid)

\* The second manager, created after the first added todos and removed
\* one, listed the root that is left.
C23_Witness ==
    /\ manager2.created
    /\ manager2.since = todos
    /\ last.op = "manager2.get_all_todos"
    /\ Len(last.result) = 1
    /\ issued \ Stored(todos) # {}

====
